---- MODULE Spec2Model ----
(***************************************************************************)
(* Daily-Briefing-AI: the audio pipeline (services/audioUtils.ts), the     *)
(* TTS glue (services/geminiService.ts), the App state machine (App.tsx)   *)
(* and the Player's audio-source effect (components/Player.tsx).           *)
(*                                                                         *)
(* The specifications share the variables:                                 *)
(*   SpecAudio  calls the pure functions of audioUtils.ts, and the name    *)
(*              the Player's download offers, on inputs drawn from bounded *)
(*              sets (one action per exported or internal function);       *)
(*   Spec       is the App: the UI handlers, the awaited steps of          *)
(*              handleGenerate and mixAudioWithMusic, the object URLs and  *)
(*              the Player mount/unmount;                                  *)
(*   FairSpec   is Spec with the scheduled steps taken once enabled;       *)
(*   SpecPlayer is a Player whose parent changes its props and unmounts it *)
(*              (call holds the props of the last render).                 *)
(*                                                                         *)
(* Numbers.  A float sample is a rational <<num, den>> with den > 0.  The  *)
(* decoder's outputs V/32768 are exact in float32, and the products the    *)
(* encoder forms from them are exact in float64, so rational arithmetic is *)
(* what the code computes there.  The one place where IEEE-754 rounding    *)
(* changes an integer result is the render length duration * 44100, see    *)
(* DoubleProductBelow.                                                     *)
(***************************************************************************)
EXTENDS Integers, Sequences, FiniteSets, TLC

VARIABLES
  \* ---- SpecAudio: the function called last, with its arguments, and its result
  call, ret,
  \* ---- Spec: App.tsx state (useState cells)
  textInput, selectedMusic, loadingState, result, error,
  \* ---- Spec: the running handleGenerate invocation and the mix it awaits
  req,
  \* ---- Spec: the host's object-URL store and the mounted Player
  urls, player

vars == <<call, ret, textInput, selectedMusic, loadingState, result, error,
          req, urls, player>>

appVars == <<textInput, selectedMusic, loadingState, result, error, req, urls, player>>
audioVars == <<call, ret>>

(***************************************************************************)
(* Bounds of the model                                                     *)
(***************************************************************************)
MaxBytes == 6          \* longest voice payload enumerated byte by byte
MaxB64Len == 3         \* longest raw (possibly malformed) base64 string
MaxChannels == 3       \* numChannels arguments tried on decodeAudioData
MaxFrames == 2         \* frames of the AudioBuffers handed to audioBufferToWav
GridDen == 1000        \* float samples s = k / GridDen, k in -GridDen..GridDen
MaxSamples == 2000     \* voice lengths N tried on the render-length arithmetic
MaxDyadic == 64        \* float32 samples k / 65536 within MaxDyadic of -1 and 1
NoiseDen == 2          \* Math.random()*2-1 drawn from k / NoiseDen
EnvStride == 441       \* frames of the envelope are sampled every EnvStride
MaxTitleLen == 3       \* longest title handed to handleDownload
MaxUrls == 3           \* object URLs the host hands out before the model stops

(***************************************************************************)
(* Program constants                                                       *)
(***************************************************************************)
VoiceRate == 24000     \* decodeAudioData(..., 24000), createWavUrl default
RenderRate == 44100    \* new OfflineAudioContext(2, duration * 44100, 44100)
HeaderLen == 44        \* new ArrayBuffer(44 ...)
PadChar == 64          \* '=' in a base64 string; 0..63 are the sextets
Int16Scale == 32768    \* / 32768.0 and 0x8000
PosScale == 32767      \* 0x7FFF

Styles == {"NO_MUSIC", "CALM", "UPBEAT", "FOCUS"}
MusicStyles == Styles \ {"NO_MUSIC"}

(***************************************************************************)
(* Results of a call: a value, or the exception it threw                   *)
(***************************************************************************)
Ok(v) == [ok |-> TRUE, val |-> v]
Throw(e) == [ok |-> FALSE, err |-> e]

BoundedSeq(S, n) == UNION {[1..k -> S] : k \in 0..n}

(***************************************************************************)
(* Base64.  A base64 string is a sequence of symbols: 0..63 the sextets of *)
(* the alphabet, PadChar the '='.                                          *)
(***************************************************************************)
\* The TTS service's side: the base64 text of a byte payload (RFC 4648, padded).
btoa(bytes) ==
  LET n == Len(bytes)
      groups == (n + 2) \div 3
      b(i) == IF i <= n THEN bytes[i] ELSE 0
      sym(g, j) ==
        LET b0 == b(3*g - 2)
            b1 == b(3*g - 1)
            b2 == b(3*g)
        IN CASE j = 1 -> b0 \div 4
             [] j = 2 -> (b0 % 4) * 16 + b1 \div 16
             [] j = 3 -> IF 3*g - 1 > n THEN PadChar ELSE (b1 % 16) * 4 + b2 \div 64
             [] j = 4 -> IF 3*g > n THEN PadChar ELSE b2 % 64
  IN [k \in 1..(4 * groups) |-> sym((k + 3) \div 4, ((k - 1) % 4) + 1)]

\* atob's first step on a string whose length is a multiple of 4: one or two
\* trailing '=' are removed.
StripPadding(s) ==
  IF Len(s) > 0 /\ Len(s) % 4 = 0 /\ s[Len(s)] = PadChar
  THEN IF s[Len(s) - 1] = PadChar THEN SubSeq(s, 1, Len(s) - 2)
                                   ELSE SubSeq(s, 1, Len(s) - 1)
  ELSE s

\* atob (the forgiving-base64 decode): the char codes of the binary string, or
\* InvalidCharacterError.
atob(s) ==
  LET d == StripPadding(s)
      n == (Len(d) * 6) \div 8
      byte(k) ==
        LET q == ((8 * k) \div 6) + 1
            r == (8 * k) % 6
        IN CASE r = 0 -> d[q] * 4 + d[q + 1] \div 16
             [] r = 2 -> (d[q] % 16) * 16 + d[q + 1] \div 4
             [] r = 4 -> (d[q] % 4) * 64 + d[q + 1]
  IN IF Len(d) % 4 = 1 \/ \E i \in 1..Len(d) : d[i] \notin 0..63
     THEN Throw("InvalidCharacterError")
     ELSE Ok([k \in 1..n |-> byte(k - 1)])

\* decodeBase64: bytes[i] = binaryString.charCodeAt(i)
decodeBase64(base64) ==
  LET binaryString == atob(base64)
  IN IF ~binaryString.ok THEN binaryString
     ELSE Ok([i \in 1..Len(binaryString.val) |-> binaryString.val[i]])

(***************************************************************************)
(* Integer conversions of the host                                         *)
(***************************************************************************)
\* Truncation toward zero of num / den (den > 0).
Trunc(num, den) == IF num >= 0 THEN num \div den ELSE -((-num) \div den)

\* A 16-bit pattern read as a signed integer.
ToSigned16(u) == IF (u % 65536) >= 32768 THEN (u % 65536) - 65536 ELSE u % 65536

\* WebIDL's conversion of a non-negative number to unsigned long: the
\* fraction is dropped.
ToUnsignedLong(num, den) == Trunc(num, den)

\* DataView.setUint32(offset, v, true) and setUint16(offset, v, true): the
\* little-endian bytes.  Every value the model writes is below 2^31.
LE32(v) == <<v % 256, (v \div 256) % 256, (v \div 65536) % 256, (v \div 16777216) % 256>>
LE16(v) == <<(v % 65536) % 256, (v % 65536) \div 256>>

\* The reader's side of the same fields.
ReadLE32(b, off) == b[off + 1] + 256 * b[off + 2] + 65536 * b[off + 3] + 16777216 * b[off + 4]
ReadLE16(b, off) == b[off + 1] + 256 * b[off + 2]

\* writeString: the char codes of 'RIFF', 'WAVE', 'fmt ' and 'data'.
writeString(str) ==
  CASE str = "RIFF" -> <<82, 73, 70, 70>>
    [] str = "WAVE" -> <<87, 65, 86, 69>>
    [] str = "fmt " -> <<102, 109, 116, 32>>
    [] str = "data" -> <<100, 97, 116, 97>>

(***************************************************************************)
(* decodeAudioData                                                         *)
(***************************************************************************)
\* Faulty variant: a view that drops a trailing odd byte instead of throwing.
Int16ArrayFloor(bytes) ==
  Ok([i \in 1..(Len(bytes) \div 2) |->
        ToSigned16(bytes[2 * i - 1] + 256 * bytes[2 * i])])

\* new Int16Array(bytes.buffer): RangeError when the byte length is odd.
Int16Array(bytes) ==
  IF Len(bytes) % 2 # 0 THEN Throw("RangeError")
  ELSE Ok([i \in 1..(Len(bytes) \div 2) |->
             ToSigned16(bytes[2 * i - 1] + 256 * bytes[2 * i])])

\* ctx.createBuffer(numberOfChannels, length, sampleRate): NotSupportedError
\* when the length is 0; the channels start as silence.
BadBufferArgs(numberOfChannels, length) == length < 1 \/ numberOfChannels < 1

createBuffer(numberOfChannels, length, sampleRate) ==
  IF BadBufferArgs(numberOfChannels, length) THEN Throw("NotSupportedError")
  ELSE Ok([numberOfChannels |-> numberOfChannels,
           length |-> length,
           sampleRate |-> sampleRate,
           channels |-> [c \in 1..numberOfChannels |-> [i \in 1..length |-> <<0, 1>>]]])

decodeAudioData(base64Data, sampleRate, numChannels) ==
  LET bytes == decodeBase64(base64Data)
  IN IF ~bytes.ok THEN bytes
     ELSE
       LET dataInt16 == Int16Array(bytes.val)
       IN IF ~dataInt16.ok THEN dataInt16
          ELSE
            LET \* frameCount = dataInt16.length / numChannels, a fraction
                \* when the division leaves a remainder
                buffer == createBuffer(numChannels,
                                       ToUnsignedLong(Len(dataInt16.val), numChannels),
                                       sampleRate)
            IN IF ~buffer.ok THEN buffer
               ELSE Ok([buffer.val EXCEPT !.channels =
                          [channel \in 1..numChannels |->
                             [i \in 1..buffer.val.length |->
                                <<dataInt16.val[(i - 1) * numChannels + channel],
                                  Int16Scale>>]]])

(***************************************************************************)
(* audioBufferToWav, interleave, encodeWAV, floatTo16BitPCM                *)
(***************************************************************************)
\* Faulty variant: planar instead of interleaved (all of L, then all of R).
interleavePlanar(inputL, inputR) == inputL \o inputR

interleave(inputL, inputR) ==
  [k \in 1..(Len(inputL) + Len(inputR)) |->
     IF k % 2 = 1 THEN inputL[(k + 1) \div 2] ELSE inputR[k \div 2]]

\* Math.max(-1, Math.min(1, input[i]))
Clamp(s) ==
  IF s[1] > s[2] THEN <<1, 1>> ELSE IF s[1] < -s[2] THEN <<-1, 1>> ELSE s

\* Faulty variant: the same scale 0x7FFF on both signs.
QuantizeSymmetric(input) ==
  LET s == Clamp(input)
  IN ToSigned16(Trunc(s[1] * PosScale, s[2]) + 65536)

\* Faulty variant: the scaled sample is rounded to the nearest integer.
QuantizeRounded(input) ==
  LET s == Clamp(input)
      scale == IF s[1] < 0 THEN Int16Scale ELSE PosScale
      n == s[1] * scale
      a == IF n >= 0 THEN n ELSE -n
      r == (a \div s[2]) + (IF 2 * (a % s[2]) >= s[2] THEN 1 ELSE 0)
  IN ToSigned16((IF n >= 0 THEN r ELSE -r) + 65536)

\* The number handed to setInt16: s < 0 ? s * 0x8000 : s * 0x7FFF, which
\* setInt16 converts by truncation and wrap to 16 bits.
Quantize(input) ==
  LET s == Clamp(input)
  IN ToSigned16(Trunc(s[1] * (IF s[1] < 0 THEN Int16Scale ELSE PosScale), s[2]) + 65536)

\* floatTo16BitPCM: two little-endian bytes per sample.
floatTo16BitPCM(input) ==
  [k \in 1..(2 * Len(input)) |->
     LE16(Quantize(input[(k + 1) \div 2]) + 65536)[((k - 1) % 2) + 1]]

encodeWAV(samples, numChannels, sampleRate, bitDepth) ==
  LET bytesPerSample == bitDepth \div 8
      blockAlign == numChannels * bytesPerSample
  IN writeString("RIFF")
     \o LE32(36 + Len(samples) * bytesPerSample)
     \o writeString("WAVE")
     \o writeString("fmt ")
     \o LE32(16)
     \o LE16(1)
     \o LE16(numChannels)
     \o LE32(sampleRate)
     \o LE32(sampleRate * blockAlign)
     \o LE16(blockAlign)
     \o LE16(bitDepth)
     \o writeString("data")
     \o LE32(Len(samples) * bytesPerSample)
     \o floatTo16BitPCM(samples)

\* The size of the blob encodeWAV builds: new ArrayBuffer(44 + samples.length * 2),
\* samples the interleaved channels (2 channels) or channel 0.
WavByteLength(numberOfChannels, length) ==
  HeaderLen + (IF numberOfChannels = 2 THEN 2 * length ELSE length) * 2

audioBufferToWav(buffer) ==
  LET numChannels == buffer.numberOfChannels
      samples == IF numChannels = 2
                 THEN interleave(buffer.channels[1], buffer.channels[2])
                 ELSE buffer.channels[1]
  IN encodeWAV(samples, numChannels, buffer.sampleRate, 16)

(***************************************************************************)
(* createWavUrl: the blob behind the object URL                            *)
(***************************************************************************)
\* Faulty variant: the data goes through the 16-bit view, which loses a trailing odd byte.
createWavUrlViaInt16(base64Data, sampleRate) ==
  LET bytes == decodeBase64(base64Data)
  IN IF ~bytes.ok THEN bytes
     ELSE LET n == 2 * (Len(bytes.val) \div 2)
          IN Ok(writeString("RIFF") \o LE32(36 + n) \o writeString("WAVE")
                \o writeString("fmt ") \o LE32(16) \o LE16(1) \o LE16(1)
                \o LE32(sampleRate) \o LE32(sampleRate * 2) \o LE16(2) \o LE16(16)
                \o writeString("data") \o LE32(n) \o SubSeq(bytes.val, 1, n))

createWavUrl(base64Data, sampleRate) ==
  LET bytes == decodeBase64(base64Data)
  IN IF ~bytes.ok THEN bytes
     ELSE Ok(writeString("RIFF")
             \o LE32(36 + Len(bytes.val))
             \o writeString("WAVE")
             \o writeString("fmt ")
             \o LE32(16)
             \o LE16(1)
             \o LE16(1)
             \o LE32(sampleRate)
             \o LE32(sampleRate * 2)
             \o LE16(2)
             \o LE16(16)
             \o writeString("data")
             \o LE32(Len(bytes.val))
             \o bytes.val)

(***************************************************************************)
(* generateBackgroundTrack                                                 *)
(***************************************************************************)
RECURSIVE GCD(_, _)
GCD(a, b) == IF b = 0 THEN a ELSE GCD(b, a % b)

\* The voice lengths N (int16 samples at 24000 Hz) up to 70000 for which the
\* double fl(fl(N / 24000) * 44100) lies just below the integer 147 N / 80, so
\* that its conversion to unsigned long is one less than the exact product.
\* (For every other N up to 70000 the conversion equals floor(147 N / 80).)
DoubleProductBelow(duration, rate) ==
  /\ duration[2] = VoiceRate
  /\ rate = RenderRate
  /\ duration[1] \in
       {1840, 3680, 4400, 6320, 7360, 7760, 8400, 8800, 12640, 12880, 13680,
        14720, 15520, 15760, 16560, 16800, 17600, 25040, 25280, 25520, 25760,
        27120, 27360, 27600, 29200, 29440, 29680, 31040, 31280, 31520, 31760,
        33120, 33360, 33600, 35200, 35440, 48240, 48720, 49200, 50080, 50560,
        51040, 51520, 52400, 52880, 53360, 54240, 54720, 55200, 56080, 56560,
        57040, 57520, 58400, 58880, 59360, 60240, 60720, 61200, 62080, 62560,
        63040, 63520, 64400, 64880, 65360, 66240, 66720, 67200, 68080, 68560,
        69040, 69520}

\* Faulty variant: the length rounded up instead of truncated.
SecondsToFramesCeil(duration, rate) ==
  LET g == GCD(rate, duration[2])
      num == duration[1] * (rate \div g)
      den == duration[2] \div g
  IN (num + den - 1) \div den

\* Faulty variant: the length rounded to the nearest integer.
SecondsToFramesRound(duration, rate) ==
  LET g == GCD(rate, duration[2])
      num == duration[1] * (rate \div g)
      den == duration[2] \div g
  IN (2 * num + den) \div (2 * den)

\* duration * rate (and rate * duration) converted to an unsigned long length:
\* the length argument of new OfflineAudioContext and of ctx.createBuffer.
SecondsToFrames(duration, rate) ==
  LET g == GCD(rate, duration[2])
      num == duration[1] * (rate \div g)
      den == duration[2] \div g
  IN ToUnsignedLong(num, den)
       - (IF num % den = 0 /\ DoubleProductBelow(duration, rate) THEN 1 ELSE 0)

\* AudioBuffer.duration = length / sampleRate, in seconds.
Duration(buffer) == <<buffer.length, buffer.sampleRate>>

\* Times and envelope values are integers in units of 1 / EnvUnit, a common
\* multiple of both sample rates: 1 s = EnvUnit, envelope 1 = EnvUnit.
EnvUnit == 240 * RenderRate
\* time = i / sampleRate
FrameTime(i, sampleRate) == i * (EnvUnit \div sampleRate)
\* duration in the same unit
DurationTime(duration) == duration[1] * (EnvUnit \div duration[2])

\* let envelope = 1;
\* if (time < 0.5) envelope = time / 0.5;
\* if (time > duration - 1.5) envelope = (duration - time) / 1.5;
\* envelope = Math.max(0, envelope);
envelope(time, duration) ==
  LET e1 == IF 2 * time < EnvUnit THEN 2 * time ELSE EnvUnit
      e2 == IF 2 * time > 2 * duration - 3 * EnvUnit
            THEN (2 * (duration - time)) \div 3
            ELSE e1
  IN IF e2 < 0 THEN 0 ELSE e2

\* Math.random() * 2 - 1, as a numerator over NoiseDen: a value of [-1, 1).
Noise == (-NoiseDen)..(NoiseDen - 1)

\* sampleL and sampleR of frame 0 before the envelope, in units of
\* 1 / (200 * NoiseDen).  At time 0 every sine is 0 and the kick is
\* sin(0) * exp(0) = 0; what is left is the noise: 0.005 * noise per channel
\* (CALM, one Math.random() each), the hat 0.1 * noise on both channels
\* (UPBEAT, one Math.random()), nothing (FOCUS).
SampleAtZero(style, r1, r2) ==
  CASE style = "CALM" -> <<r1, r2>>
    [] style = "UPBEAT" -> <<20 * r1, 20 * r1>>
    [] style = "FOCUS" -> <<0, 0>>
    [] OTHER -> <<0, 0>>

\* generateBackgroundTrack(ctx, style, duration), observed at frame i: the
\* buffer's length, the envelope at i and, for i = 0, L[0] and R[0] (in units
\* of 1 / (200 * NoiseDen * EnvUnit)).  NO_MUSIC returns the silent buffer.
generateBackgroundTrack(sampleRate, style, duration, i, r1, r2) ==
  LET \* ctx.createBuffer(2, sampleRate * duration, sampleRate)
      length == SecondsToFrames(duration, sampleRate)
  IN IF BadBufferArgs(2, length) THEN Throw("NotSupportedError")
     ELSE IF style = "NO_MUSIC"
     THEN Ok([length |-> length, silent |-> TRUE, env |-> 0, L0 |-> 0, R0 |-> 0])
     ELSE
       LET env == envelope(FrameTime(i, sampleRate), DurationTime(duration))
           s0 == SampleAtZero(style, r1, r2)
       IN Ok([length |-> length,
              silent |-> FALSE,
              env |-> env,
              L0 |-> IF i = 0 THEN s0[1] * env ELSE 0,
              R0 |-> IF i = 0 THEN s0[2] * env ELSE 0])

(***************************************************************************)
(* The render graph of mixAudioWithMusic and what the host renders from it *)
(***************************************************************************)
RAdd(a, b) == <<a[1] * b[2] + b[1] * a[2], a[2] * b[2]>>
RMul(a, b) == <<a[1] * b[1], a[2] * b[2]>>

\* Faulty variant: the music is also connected to the destination directly.
RenderGraphMusicDirect ==
  [connections |-> {<<"voiceSource", "destination">>,
                    <<"musicSource", "musicGain">>,
                    <<"musicSource", "destination">>,
                    <<"musicGain", "destination">>},
   gain |-> [musicGain |-> <<3, 5>>],
   start |-> [voiceSource |-> 0, musicSource |-> 0]]

\* voiceSource.connect(destination); musicSource.connect(musicGain);
\* musicGain.gain.value = 0.6; musicGain.connect(destination); both start(0).
RenderGraph ==
  [connections |-> {<<"voiceSource", "destination">>,
                    <<"musicSource", "musicGain">>,
                    <<"musicGain", "destination">>},
   gain |-> [musicGain |-> <<3, 5>>],
   start |-> [voiceSource |-> 0, musicSource |-> 0]]

\* What a node puts out at frame 0, given the sample each source buffer holds
\* there: a source that starts at 0 plays its sample (one that starts later is
\* still silent), a gain node scales the sum of its inputs, the destination
\* sums its inputs.
RECURSIVE NodeOutput(_, _, _)
NodeOutput(graph, samples, node) ==
  LET inputs == {c[1] : c \in {d \in graph.connections : d[2] = node}}
      RECURSIVE Sum(_)
      Sum(S) == IF S = {} THEN <<0, 1>>
                ELSE LET x == CHOOSE y \in S : TRUE
                     IN RAdd(NodeOutput(graph, samples, x), Sum(S \ {x}))
  IN IF node \in DOMAIN graph.start
     THEN IF graph.start[node] = 0 THEN samples[node] ELSE <<0, 1>>
     ELSE IF node \in DOMAIN graph.gain
     THEN RMul(graph.gain[node], Sum(inputs))
     ELSE Sum(inputs)

\* One output frame: the mono voice feeds both channels of the stereo
\* destination, the music its own two channels.
RenderFrame(graph, voice, musicL, musicR) ==
  [L |-> NodeOutput(graph, [voiceSource |-> voice, musicSource |-> musicL], "destination"),
   R |-> NodeOutput(graph, [voiceSource |-> voice, musicSource |-> musicR], "destination")]

(***************************************************************************)
(* mixAudioWithMusic as a function of its inputs and of what the offline   *)
(* render delivers (the blob behind the returned object URL)               *)
(***************************************************************************)
\* The length of the render context: new OfflineAudioContext(2, duration * 44100, 44100)
\* throws NotSupportedError for a length of 0.
OfflineAudioContext(numberOfChannels, length, sampleRate) ==
  IF length < 1 THEN Throw("NotSupportedError")
  ELSE Ok([numberOfChannels |-> numberOfChannels, length |-> length,
           sampleRate |-> sampleRate])

\* startRendering resolves with a buffer of the context's channels, length and
\* rate; its samples are the host's (resampled voice + 0.6 * music).
RenderedBuffer(ctx, hostL, hostR) ==
  [numberOfChannels |-> ctx.numberOfChannels,
   length |-> ctx.length,
   sampleRate |-> ctx.sampleRate,
   channels |-> <<[i \in 1..ctx.length |-> hostL], [i \in 1..ctx.length |-> hostR]>>]

mixAudioWithMusic(voiceBase64, musicStyle, hostL, hostR) ==
  IF musicStyle = "NO_MUSIC" THEN createWavUrl(voiceBase64, VoiceRate)
  ELSE
    LET voiceBuffer == decodeAudioData(voiceBase64, VoiceRate, 1)
    IN IF ~voiceBuffer.ok THEN voiceBuffer
       ELSE
         LET duration == Duration(voiceBuffer.val)
             renderCtx == OfflineAudioContext(2, SecondsToFrames(duration, RenderRate),
                                              RenderRate)
         IN IF ~renderCtx.ok THEN renderCtx
            ELSE Ok(audioBufferToWav(RenderedBuffer(renderCtx.val, hostL, hostR)))

\* The same, for a well-formed payload of n int16 samples, at the level of
\* lengths: the frames, rate and channels of the WAV that is returned.
MixOutputFormat(n, musicStyle) ==
  IF musicStyle = "NO_MUSIC"
  THEN [frames |-> (2 * n) \div 2, sampleRate |-> VoiceRate, channels |-> 1]
  ELSE [frames |-> SecondsToFrames(<<n, VoiceRate>>, RenderRate),
        sampleRate |-> RenderRate, channels |-> 2]

\* What a reader of a WAV blob finds in it.
WavFormat(blob) ==
  [riffSize |-> ReadLE32(blob, 4),
   format |-> ReadLE16(blob, 20),
   channels |-> ReadLE16(blob, 22),
   sampleRate |-> ReadLE32(blob, 24),
   byteRate |-> ReadLE32(blob, 28),
   blockAlign |-> ReadLE16(blob, 32),
   bitsPerSample |-> ReadLE16(blob, 34),
   dataLength |-> ReadLE32(blob, 40),
   data |-> SubSeq(blob, HeaderLen + 1, Len(blob))]

(***************************************************************************)
(* Player.tsx: handleDownload.  A string is the sequence of its UTF-16     *)
(* code units.                                                             *)
(***************************************************************************)
\* [a-z0-9] under the i flag: ASCII letters and digits
IsAlnum(c) == c \in (48..57) \cup (65..90) \cup (97..122)

\* Faulty variant: the characters are removed, not replaced.
removeNonAlnum(str) == SelectSeq(str, IsAlnum)

\* title.replace(/[^a-z0-9]/gi, '_')
replaceNonAlnum(str) == [i \in 1..Len(str) |-> IF IsAlnum(str[i]) THEN str[i] ELSE 95]

\* toLowerCase on what the replacement leaves: ASCII letters, digits and '_'
toLowerCase(str) ==
  [i \in 1..Len(str) |-> IF str[i] \in 65..90 THEN str[i] + 32 ELSE str[i]]

\* link.download of handleDownload: `${safeTitle}.wav`, safeTitle falling back
\* to 'daily_briefing' when the string is empty (falsy)
handleDownload(title) ==
  LET sanitized == toLowerCase(replaceNonAlnum(title))
      safeTitle == IF sanitized = <<>>
                   THEN <<100, 97, 105, 108, 121, 95, 98, 114, 105, 101, 102, 105, 110, 103>>
                   ELSE sanitized
  IN safeTitle \o <<46, 119, 97, 118>>

(***************************************************************************)
(* App.tsx: initial state                                                  *)
(***************************************************************************)
\* useState<SummaryResult | null>(null)
Null == [null |-> TRUE]
\* what the TTS response carries at candidates[0].content.parts[0].inlineData.data
NoData == [present |-> FALSE, data |-> <<>>]
\* no handleGenerate call has been made yet
NoRequest ==
  [pc |-> "none", music |-> "NO_MUSIC", answered |-> FALSE, tts |-> NoData,
   samples |-> 0,
   outcome |-> Throw("none"), created |-> 0, urls0 |-> 0, log |-> {}, steps |-> <<>>,
   trace |-> <<>>]
NoPlayer == [mounted |-> FALSE, url |-> 0, shouldRevoke |-> FALSE]

AppInit ==
  /\ textInput = <<>>
  /\ selectedMusic = "NO_MUSIC"
  /\ loadingState = "IDLE"
  /\ result = Null
  /\ error = "null"
  /\ req = NoRequest
  /\ urls = [created |-> 0, live |-> {}, size |-> <<>>, revoked |-> <<>>, byPlayer |-> {}]
  /\ player = NoPlayer

(***************************************************************************)
(* SpecAudio: the functions of audioUtils.ts called on bounded inputs      *)
(***************************************************************************)
ByteVals == {0, 128, 255}
B64Syms == {0, 63, PadChar}
Payloads == BoundedSeq(ByteVals, MaxBytes)
RawStrings == BoundedSeq(B64Syms, MaxB64Len)
\* float samples handed to the encoder, some outside [-1, 1]
SampleVals == {<<-3, 2>>, <<-1, 2>>, <<0, 1>>, <<1, 1>>}
\* what the host's render delivers on the two channels
HostSamples == {<<<<0, 1>>, <<0, 1>>>>, <<<<-1, 2>>, <<1, 1>>>>}
\* samples of the voice and of the music at one frame of the render
MixSamples == {<<-1, 1>>, <<-1, 4>>, <<0, 1>>, <<1, 2>>, <<1, 1>>}
\* characters of a title: 'A', 'z', '7', ' ', '!', U+00E9
TitleChars == {65, 122, 55, 32, 33, 233}
Titles == BoundedSeq(TitleChars, MaxTitleLen)
GridSamples == {<<k, GridDen>> : k \in (-GridDen - 1)..(GridDen + 1)}
\* float32 values next to -1 and 1: k / 65536
DyadicDen == 2 * Int16Scale
DyadicSamples == {<<k, DyadicDen>> : k \in ((1 - DyadicDen)..(MaxDyadic - DyadicDen))
                                          \cup ((DyadicDen - MaxDyadic)..(DyadicDen - 1))}
\* voice lengths for the synthesizer: 0.25 s steps up to 2.5 s
EnvStep == 6000
MaxEnvSteps == 10
EnvLengths == {k * EnvStep : k \in 1..MaxEnvSteps}

InitAudio ==
  /\ call = [op |-> "none"]
  /\ ret = <<"none", Ok(<<>>)>>
  /\ AppInit

\* Each behaviour of SpecAudio is one call: the functions keep no state
\* between calls.
NotCalled == call.op = "none"

\* ret pairs the name of the function called with what it returned or threw
Returned == ret[2]

CallDecodeBase64 ==
  /\ NotCalled
  /\ \E s \in RawStrings :
       /\ call' = [op |-> "decodeBase64", base64 |-> s]
       /\ ret' = <<"decodeBase64", decodeBase64(s)>>
  /\ UNCHANGED appVars

CallCreateWavUrl ==
  /\ NotCalled
  /\ \E b \in Payloads :
       /\ call' = [op |-> "createWavUrl", payload |-> b]
       /\ ret' = <<"createWavUrl", createWavUrl(btoa(b), VoiceRate)>>
  /\ UNCHANGED appVars

CallDecodeAudioData ==
  /\ NotCalled
  /\ \E b \in Payloads, numChannels \in 1..MaxChannels :
       /\ call' = [op |-> "decodeAudioData", payload |-> b, numChannels |-> numChannels]
       /\ ret' = <<"decodeAudioData", decodeAudioData(btoa(b), VoiceRate, numChannels)>>
  /\ UNCHANGED appVars

CallAudioBufferToWav ==
  /\ NotCalled
  /\ \E c \in {1, 2}, f \in 0..MaxFrames, r \in {VoiceRate, RenderRate} :
       \E ch \in [1..c -> [1..f -> SampleVals]] :
         LET buffer == [numberOfChannels |-> c, length |-> f, sampleRate |-> r,
                        channels |-> ch]
         IN /\ call' = [op |-> "audioBufferToWav", buffer |-> buffer]
            /\ ret' = <<"audioBufferToWav", Ok(audioBufferToWav(buffer))>>
  /\ UNCHANGED appVars

CallFloatTo16BitPCM ==
  /\ NotCalled
  /\ \E s \in GridSamples \cup DyadicSamples :
       /\ call' = [op |-> "floatTo16BitPCM", input |-> s]
       /\ ret' = <<"floatTo16BitPCM", Ok(floatTo16BitPCM(<<s>>))>>
  /\ UNCHANGED appVars

\* Frame i of the track for a voice of n samples; the two Math.random() draws
\* matter at frame 0 only, where the sample is computed.
CallGenerateBackgroundTrack ==
  /\ NotCalled
  /\ \E style \in Styles, n \in EnvLengths :
       LET duration == <<n, VoiceRate>>
           length == SecondsToFrames(duration, RenderRate)
       IN \E i \in {k * EnvStride : k \in 0..((length - 1) \div EnvStride)}
                     \cup {length - 2, length - 1} :
            \E r1 \in (IF i = 0 THEN Noise ELSE {0}), r2 \in (IF i = 0 THEN Noise ELSE {0}) :
              /\ call' = [op |-> "generateBackgroundTrack", style |-> style,
                          samples |-> n, frame |-> i]
              /\ ret' = <<"generateBackgroundTrack", generateBackgroundTrack(RenderRate, style, duration, i, r1, r2)>>
  /\ UNCHANGED appVars

CallMixAudioWithMusic ==
  /\ NotCalled
  /\ \E b \in Payloads, style \in Styles, host \in HostSamples :
       /\ style = "NO_MUSIC" => host = <<<<0, 1>>, <<0, 1>>>>
       /\ call' = [op |-> "mixAudioWithMusic", payload |-> b, style |-> style]
       /\ ret' = <<"mixAudioWithMusic", mixAudioWithMusic(btoa(b), style, host[1], host[2])>>
  /\ UNCHANGED appVars

\* mixAudioWithMusic on a well-formed payload of n samples, lengths only.
CallMixLength ==
  /\ NotCalled
  /\ \E n \in 1..MaxSamples, style \in Styles :
       /\ call' = [op |-> "mixLength", samples |-> n, style |-> style]
       /\ ret' = <<"mixLength", Ok(MixOutputFormat(n, style))>>
  /\ UNCHANGED appVars

\* generateBackgroundTrack for the duration of a voice of n samples, frame 0.
CallTrackLength ==
  /\ NotCalled
  /\ \E n \in 1..MaxSamples, style \in Styles :
       /\ call' = [op |-> "trackLength", samples |-> n, style |-> style]
       /\ ret' = <<"trackLength",
                   generateBackgroundTrack(RenderRate, style, <<n, VoiceRate>>, 0, 0, 0)>>
  /\ UNCHANGED appVars

\* One int16 sample decoded by decodeAudioData, then quantized again by
\* floatTo16BitPCM.
CallInt16RoundTrip ==
  /\ NotCalled
  /\ \E v \in (-Int16Scale)..(Int16Scale - 1) :
       LET buffer == decodeAudioData(btoa(LE16(v + 65536)), VoiceRate, 1)
       IN /\ call' = [op |-> "int16RoundTrip", value |-> v]
          /\ ret' = <<"int16RoundTrip",
                      IF buffer.ok THEN Ok(floatTo16BitPCM(buffer.val.channels[1]))
                      ELSE buffer>>
  /\ UNCHANGED appVars

\* The graph of a music mix rendered on one frame of voice and music.
CallRenderGraph ==
  /\ NotCalled
  /\ \E voice \in MixSamples, musicL \in MixSamples, musicR \in MixSamples :
       /\ call' = [op |-> "renderGraph", voice |-> voice, musicL |-> musicL,
                   musicR |-> musicR]
       /\ ret' = <<"renderGraph",
                   Ok([graph |-> RenderGraph,
                       frame |-> RenderFrame(RenderGraph, voice, musicL, musicR)])>>
  /\ UNCHANGED appVars

\* The Player's download action with an audio URL present.
CallHandleDownload ==
  /\ NotCalled
  /\ \E title \in Titles :
       /\ call' = [op |-> "handleDownload", title |-> title]
       /\ ret' = <<"handleDownload", Ok(handleDownload(title))>>
  /\ UNCHANGED appVars

NextAudio ==
  \/ CallDecodeBase64
  \/ CallCreateWavUrl
  \/ CallDecodeAudioData
  \/ CallAudioBufferToWav
  \/ CallFloatTo16BitPCM
  \/ CallGenerateBackgroundTrack
  \/ CallMixAudioWithMusic
  \/ CallMixLength
  \/ CallRenderGraph
  \/ CallHandleDownload
  \/ CallTrackLength
  \/ CallInt16RoundTrip

SpecAudio == InitAudio /\ [][NextAudio]_vars

(***************************************************************************)
(* Spec: the App.  One request (a handleGenerate call) runs at a time: the *)
(* form with the Generate button is rendered in IDLE only, and the handler *)
(* leaves IDLE before its first await.                                     *)
(***************************************************************************)
\* what the textarea may hold: character codes, Space the blank
Space == 32
Texts == {<<>>, <<Space>>, <<110>>, <<Space, 110, Space>>}

\* Faulty variant: nothing is trimmed, blank input counts as input.
trimNothing(s) == s

\* String.prototype.trim
trim(s) ==
  LET ns == {i \in 1..Len(s) : s[i] # Space}
  IN IF ns = {} THEN <<>>
     ELSE SubSeq(s, CHOOSE i \in ns : \A j \in ns : i <= j,
                    CHOOSE i \in ns : \A j \in ns : i >= j)

\* what the TTS service may answer: no inlineData, an empty string, or base64
\* text (of one sample, of a lone byte, of two samples, or text atob rejects)
TtsResponses ==
  {NoData, [present |-> TRUE, data |-> <<>>]}
    \cup {[present |-> TRUE, data |-> btoa(b)] :
            b \in {<<0, 128>>, <<255>>, <<1, 0, 255, 127>>}}
    \cup {[present |-> TRUE, data |-> <<0>>]}

\* Faulty variant: the payload is returned without the `!base64Audio` test.
generateSpeechFromTextUnchecked(response) == Ok(response.data)

\* generateSpeechFromText once the service has answered: `!base64Audio` is
\* true of undefined and of the empty string.
generateSpeechFromText(response) ==
  LET base64Audio == response
  IN IF ~base64Audio.present \/ base64Audio.data = <<>>
     THEN Throw("No audio data returned from Gemini.")
     ELSE Ok(base64Audio.data)

\* URL.createObjectURL / URL.revokeObjectURL on the host's store: URLs are
\* numbered from 1 in the order of their creation; size is the blob's length;
\* revoked lists the revokeObjectURL calls made, byPlayer the URLs that the
\* Player's effect asked for.
createObjectURL(store, blobSize) ==
  [store EXCEPT !.created = @ + 1,
                !.live = @ \cup {store.created + 1},
                !.size = Append(@, blobSize)]
revokeObjectURL(store, url) ==
  [store EXCEPT !.live = @ \ {url}, !.revoked = Append(@, url)]

Range(s) == {s[i] : i \in DOMAIN s}

\* A step of mixAudioWithMusic leaves: where the call stands (pc), the error it
\* threw ("" for none), the blobs it passed to createObjectURL, the voice
\* samples it decoded and the calls it made, in order.
MixStep(pc, err, blobs, samples, log) ==
  [pc |-> pc, err |-> err, blobs |-> blobs, samples |-> samples, log |-> log]

\* Faulty variant: an object URL (of a header-only blob) is created before the
\* payload is decoded.
MixStartEagerUrl(voiceBase64, musicStyle) ==
  LET wav == createWavUrl(voiceBase64, VoiceRate)
      voiceBuffer == decodeAudioData(voiceBase64, VoiceRate, 1)
  IN IF musicStyle = "NO_MUSIC"
     THEN MixStep("settled", IF wav.ok THEN "" ELSE wav.err, <<HeaderLen>>, 0,
                  <<"createWavUrl", "createObjectURL", "decodeBase64">>)
     ELSE IF ~voiceBuffer.ok
          THEN MixStep("settled", voiceBuffer.err, <<HeaderLen>>, 0,
                       <<"createObjectURL", "OfflineAudioContext", "decodeAudioData">>)
          ELSE MixStep("decoded", "", <<>>, voiceBuffer.val.length,
                       <<"OfflineAudioContext", "decodeAudioData">>)

\* Faulty variant: NO_MUSIC is not short-circuited and takes the render path.
MixStartNoFastPath(voiceBase64, musicStyle) ==
  LET offlineCtx == OfflineAudioContext(2, RenderRate * 1, RenderRate)
      voiceBuffer == decodeAudioData(voiceBase64, VoiceRate, 1)
  IN IF ~offlineCtx.ok
     THEN MixStep("settled", offlineCtx.err, <<>>, 0, <<"OfflineAudioContext">>)
     ELSE IF ~voiceBuffer.ok
     THEN MixStep("settled", voiceBuffer.err, <<>>, 0,
                  <<"OfflineAudioContext", "decodeAudioData">>)
     ELSE MixStep("decoded", "", <<>>, voiceBuffer.val.length,
                  <<"OfflineAudioContext", "decodeAudioData">>)

\* mixAudioWithMusic from its call to its first suspension.  NO_MUSIC: the
\* whole of createWavUrl.  A music style: the temporary context and
\* decodeAudioData, which the function awaits.
MixStart(voiceBase64, musicStyle) ==
  IF musicStyle = "NO_MUSIC"
  THEN LET wav == createWavUrl(voiceBase64, VoiceRate)
       IN IF ~wav.ok
          THEN MixStep("settled", wav.err, <<>>, 0, <<"createWavUrl", "decodeBase64">>)
          ELSE MixStep("settled", "", <<Len(wav.val)>>, 0,
                       <<"createWavUrl", "decodeBase64", "createObjectURL">>)
  ELSE LET offlineCtx == OfflineAudioContext(2, RenderRate * 1, RenderRate)
           voiceBuffer == decodeAudioData(voiceBase64, VoiceRate, 1)
       IN IF ~offlineCtx.ok
          THEN MixStep("settled", offlineCtx.err, <<>>, 0, <<"OfflineAudioContext">>)
          ELSE IF ~voiceBuffer.ok
          THEN MixStep("settled", voiceBuffer.err, <<>>, 0,
                       <<"OfflineAudioContext", "decodeAudioData">>)
          ELSE MixStep("decoded", "", <<>>, voiceBuffer.val.length,
                       <<"OfflineAudioContext", "decodeAudioData">>)

\* Faulty variant: the still empty render target is encoded and given a URL
\* before startRendering is awaited.
MixRenderSetupEncodeFirst(samples) ==
  LET length == SecondsToFrames(<<samples, VoiceRate>>, RenderRate)
      renderCtx == OfflineAudioContext(2, length, RenderRate)
  IN IF ~renderCtx.ok
     THEN MixStep("settled", renderCtx.err, <<>>, samples, <<"OfflineAudioContext">>)
     ELSE IF BadBufferArgs(2, length)
     THEN MixStep("settled", "NotSupportedError", <<>>, samples,
                  <<"OfflineAudioContext", "generateBackgroundTrack">>)
     ELSE MixStep("rendering", "", <<WavByteLength(2, length)>>, samples,
                  <<"OfflineAudioContext", "generateBackgroundTrack", "audioBufferToWav",
                    "createObjectURL", "startRendering">>)

\* From the decoded voice to the call of startRendering: the render context of
\* duration * 44100 frames, the sources, the music buffer and the gain.
MixRenderSetup(samples) ==
  LET duration == <<samples, VoiceRate>>
      length == SecondsToFrames(duration, RenderRate)
      renderCtx == OfflineAudioContext(2, length, RenderRate)
  IN IF ~renderCtx.ok
     THEN MixStep("settled", renderCtx.err, <<>>, samples, <<"OfflineAudioContext">>)
     ELSE IF BadBufferArgs(2, length)
     THEN MixStep("settled", "NotSupportedError", <<>>, samples,
                  <<"OfflineAudioContext", "generateBackgroundTrack">>)
     ELSE MixStep("rendering", "", <<>>, samples,
                  <<"OfflineAudioContext", "generateBackgroundTrack", "startRendering">>)

\* startRendering resolved: the rendered buffer (of the context's channels and
\* length) is encoded and its blob gets the object URL the call returns.
MixRendered(samples) ==
  LET length == SecondsToFrames(<<samples, VoiceRate>>, RenderRate)
  IN MixStep("settled", "", <<WavByteLength(2, length)>>, samples,
             <<"audioBufferToWav", "createObjectURL">>)

\* The store after the createObjectURL calls of a step (a step makes one at most).
StoreAfter(store, blobs) ==
  IF blobs = <<>> THEN store ELSE createObjectURL(store, blobs[1])

\* The request after a step of its mixAudioWithMusic call; the call resolves
\* with the URL it created last.
RequestAfter(r, m, store) ==
  [r EXCEPT !.pc = m.pc,
            !.samples = m.samples,
            !.log = @ \cup Range(m.log) \cup {"mixAudioWithMusic"},
            !.steps = @ \o m.log,
            !.created = @ + Len(m.blobs),
            !.outcome = IF m.pc # "settled" THEN Throw("pending")
                        ELSE IF m.err # "" THEN Throw(m.err)
                        ELSE Ok(StoreAfter(store, m.blobs).created)]

\* setLoadingState as seen from the request: trace keeps the states it set.
Enter(r, state) == [r EXCEPT !.trace = Append(@, state)]

\* Player.tsx, the effect that resolves the audio source, and its cleanup.
PlayerEffect(propAudioUrl, base64Audio, store) ==
  IF propAudioUrl # 0
  THEN [player |-> [mounted |-> TRUE, url |-> propAudioUrl, shouldRevoke |-> FALSE],
        store |-> store]
  ELSE IF base64Audio.present /\ base64Audio.data # <<>>
  THEN LET wav == createWavUrl(base64Audio.data, VoiceRate)
           after == [createObjectURL(store, Len(wav.val))
                       EXCEPT !.byPlayer = @ \cup {store.created + 1}]
       IN IF ~wav.ok
          THEN \* atob threw inside the effect: no URL, no cleanup; the error
               \* unmounts the tree
               [player |-> NoPlayer, store |-> store]
          ELSE [player |-> [mounted |-> TRUE, url |-> after.created, shouldRevoke |-> TRUE],
                store |-> after]
  ELSE [player |-> [mounted |-> TRUE, url |-> 0, shouldRevoke |-> FALSE],
        store |-> store]

\* Faulty variant: the cleanup revokes whatever URL the effect resolved.
PlayerCleanupAlways(p, store) ==
  IF p.url # 0 THEN revokeObjectURL(store, p.url) ELSE store

\* return () => { if (shouldRevoke && url) URL.revokeObjectURL(url) }
PlayerCleanup(p, store) ==
  IF p.shouldRevoke /\ p.url # 0 THEN revokeObjectURL(store, p.url) ELSE store

Init == InitAudio

\* <textarea onChange>, <MusicSelector onChange>: rendered in IDLE only
SetTextInput ==
  /\ loadingState = "IDLE"
  /\ \E v \in Texts : textInput' = v
  /\ UNCHANGED <<selectedMusic, loadingState, result, error, req, urls, player, audioVars>>

SetSelectedMusic ==
  /\ loadingState = "IDLE"
  /\ \E style \in Styles : selectedMusic' = style
  /\ UNCHANGED <<textInput, loadingState, result, error, req, urls, player, audioVars>>

\* handleGenerate up to `await generateBroadcastScript(textInput)`
HandleGenerate ==
  /\ loadingState = "IDLE"
  /\ trim(textInput) # <<>>
  /\ urls.created < MaxUrls
  /\ loadingState' = "SUMMARIZING"
  /\ error' = "null"
  /\ result' = Null
  /\ req' = [NoRequest EXCEPT !.pc = "summarize", !.music = selectedMusic,
                              !.urls0 = urls.created, !.trace = <<"SUMMARIZING">>]
  /\ UNCHANGED <<textInput, selectedMusic, urls, player, audioVars>>

\* catch (err): setError(err.message || ...); setLoadingState(ERROR)
Catch(r, message) ==
  /\ error' = message
  /\ loadingState' = "ERROR"
  /\ req' = Enter([r EXCEPT !.pc = "done"], "ERROR")

\* generateBroadcastScript resolved: on to `await generateSpeechFromText(...)`
SummarizeResolved ==
  /\ req.pc = "summarize"
  /\ loadingState' = "GENERATING_AUDIO"
  /\ req' = Enter([req EXCEPT !.pc = "tts"], "GENERATING_AUDIO")
  /\ UNCHANGED <<textInput, selectedMusic, result, error, urls, player, audioVars>>

\* generateBroadcastScript rejected (the request failed, no text, bad JSON)
SummarizeRejected ==
  /\ req.pc = "summarize"
  /\ Catch([req EXCEPT !.outcome = Throw("SummarizeError")], "SummarizeError")
  /\ UNCHANGED <<textInput, selectedMusic, result, urls, player, audioVars>>

\* The TTS service answered.  generateSpeechFromText throws on a missing
\* payload; otherwise handleGenerate enters MIXING_AUDIO and calls
\* mixAudioWithMusic, which runs to its first suspension.
TtsAnswered ==
  /\ req.pc = "tts"
  /\ \E response \in TtsResponses :
       LET audioBase64 == generateSpeechFromText(response)
           r == [req EXCEPT !.answered = TRUE, !.tts = response]
       IN IF ~audioBase64.ok
          THEN /\ Catch([r EXCEPT !.outcome = audioBase64], audioBase64.err)
               /\ UNCHANGED urls
          ELSE LET m == MixStart(audioBase64.val, req.music)
               IN /\ loadingState' = "MIXING_AUDIO"
                  /\ urls' = StoreAfter(urls, m.blobs)
                  /\ req' = RequestAfter(Enter(r, "MIXING_AUDIO"), m, urls)
                  /\ UNCHANGED error
  /\ UNCHANGED <<textInput, selectedMusic, result, player, audioVars>>

\* ai.models.generateContent of the TTS call rejected
TtsRejected ==
  /\ req.pc = "tts"
  /\ Catch([req EXCEPT !.outcome = Throw("TtsError")], "TtsError")
  /\ UNCHANGED <<textInput, selectedMusic, result, urls, player, audioVars>>

\* mixAudioWithMusic resumes after `await decodeAudioData(...)`
MixSetupRender ==
  /\ req.pc = "decoded"
  /\ LET m == MixRenderSetup(req.samples)
     IN /\ urls' = StoreAfter(urls, m.blobs)
        /\ req' = RequestAfter(req, m, urls)
  /\ UNCHANGED <<textInput, selectedMusic, loadingState, result, error, player, audioVars>>

\* renderCtx.startRendering() resolved
RenderResolved ==
  /\ req.pc = "rendering"
  /\ LET m == MixRendered(req.samples)
     IN /\ urls' = StoreAfter(urls, m.blobs)
        /\ req' = RequestAfter(req, m, urls)
  /\ UNCHANGED <<textInput, selectedMusic, loadingState, result, error, player, audioVars>>

\* renderCtx.startRendering() rejected
RenderRejected ==
  /\ req.pc = "rendering"
  /\ req' = RequestAfter(req, MixStep("settled", "RenderError", <<>>, req.samples, <<>>), urls)
  /\ UNCHANGED <<textInput, selectedMusic, loadingState, result, error, urls, player, audioVars>>

\* The host never settles the promise of startRendering: the await at line
\* 296 has no timeout and nothing else resumes the call.
RenderNeverSettles ==
  /\ req.pc = "rendering"
  /\ req' = [req EXCEPT !.pc = "stalled"]
  /\ UNCHANGED <<textInput, selectedMusic, loadingState, result, error, urls, player, audioVars>>

\* handleGenerate resumes after `await mixAudioWithMusic(...)`
MixSettled ==
  /\ req.pc = "settled"
  /\ IF req.outcome.ok
     THEN /\ result' = [null |-> FALSE, audioUrl |-> req.outcome.val]
          /\ loadingState' = "COMPLETE"
          /\ req' = Enter([req EXCEPT !.pc = "done"], "COMPLETE")
          /\ UNCHANGED error
     ELSE /\ Catch(req, req.outcome.err)
          /\ UNCHANGED result
  /\ UNCHANGED <<textInput, selectedMusic, urls, player, audioVars>>

\* {loadingState === COMPLETE && result && <Player audioUrl={result.audioUrl} .../>}
PlayerMount ==
  /\ loadingState = "COMPLETE"
  /\ ~result.null
  /\ ~player.mounted
  /\ LET e == PlayerEffect(result.audioUrl, NoData, urls)
     IN /\ player' = e.player
        /\ urls' = e.store
  /\ UNCHANGED <<textInput, selectedMusic, loadingState, result, error, req, audioVars>>

\* Faulty variant: handleReset without setResult(null).
HandleResetKeepResult ==
  /\ player.mounted
  /\ loadingState' = "IDLE"
  /\ error' = "null"
  /\ textInput' = <<>>
  /\ urls' = PlayerCleanup(player, urls)
  /\ player' = NoPlayer
  /\ UNCHANGED <<selectedMusic, result, req, audioVars>>

\* New Briefing (the Player's onReset): handleReset; the Player unmounts and
\* its effect cleanup runs.
HandleReset ==
  /\ player.mounted
  /\ result' = Null
  /\ loadingState' = "IDLE"
  /\ error' = "null"
  /\ textInput' = <<>>
  /\ urls' = PlayerCleanup(player, urls)
  /\ player' = NoPlayer
  /\ UNCHANGED <<selectedMusic, req, audioVars>>

\* Try Again: onClick={() => setLoadingState(LoadingState.IDLE)}
TryAgain ==
  /\ loadingState = "ERROR"
  /\ loadingState' = "IDLE"
  /\ UNCHANGED <<textInput, selectedMusic, result, error, req, urls, player, audioVars>>

Next ==
  \/ SetTextInput
  \/ SetSelectedMusic
  \/ HandleGenerate
  \/ SummarizeResolved
  \/ SummarizeRejected
  \/ TtsAnswered
  \/ TtsRejected
  \/ MixSetupRender
  \/ RenderResolved
  \/ RenderRejected
  \/ RenderNeverSettles
  \/ MixSettled
  \/ PlayerMount
  \/ HandleReset
  \/ TryAgain

Spec == Init /\ [][Next]_vars

\* The steps that do not wait for the user: the continuations the event loop
\* runs once their promise has settled, the answers of the two services, what
\* the host makes of the render, and the Player's effect after the commit.
Scheduled ==
  \/ SummarizeResolved \/ SummarizeRejected
  \/ TtsAnswered \/ TtsRejected
  \/ MixSetupRender
  \/ RenderResolved \/ RenderRejected \/ RenderNeverSettles
  \/ MixSettled
  \/ PlayerMount

\* Such a step, once enabled, is eventually taken; the user may stay idle.
FairSpec == Spec /\ WF_vars(Scheduled)

(***************************************************************************)
(* SpecPlayer: a Player under a parent that creates URLs, renders the      *)
(* Player with either source prop, changes its props and unmounts it.      *)
(* call holds the props of the last render.                                *)
(***************************************************************************)
\* base64Audio?: string | null
PlayerBase64 == TtsResponses
\* audioUrl?: string -- none (0) or a URL the parent obtained
ParentUrls(store) == (1..store.created) \ store.byPlayer
PlayerProps(store) ==
  {[op |-> "Player", audioUrl |-> u, base64Audio |-> b] :
     u \in {0} \cup ParentUrls(store), b \in PlayerBase64}

\* the parent obtains an object URL of its own (as mixAudioWithMusic does)
ParentCreatesUrl ==
  /\ urls.created < MaxUrls
  /\ urls' = createObjectURL(urls, HeaderLen)
  /\ UNCHANGED <<textInput, selectedMusic, loadingState, result, error, req, player,
                 audioVars>>

\* first render: the effect runs after the commit
PlayerRender ==
  /\ ~player.mounted
  /\ \E props \in PlayerProps(urls) :
       LET e == PlayerEffect(props.audioUrl, props.base64Audio, urls)
       IN /\ e.store.created <= MaxUrls
          /\ call' = props
          /\ player' = e.player
          /\ urls' = e.store
  /\ UNCHANGED <<textInput, selectedMusic, loadingState, result, error, req, ret>>

\* re-render with a changed dependency [propAudioUrl, base64Audio]: the
\* cleanup of the last effect runs, then the effect
PlayerPropsChange ==
  /\ player.mounted
  /\ \E props \in PlayerProps(urls) :
       LET cleaned == PlayerCleanup(player, urls)
           e == PlayerEffect(props.audioUrl, props.base64Audio, cleaned)
       IN /\ <<props.audioUrl, props.base64Audio>> # <<call.audioUrl, call.base64Audio>>
          /\ e.store.created <= MaxUrls
          /\ call' = props
          /\ player' = e.player
          /\ urls' = e.store
  /\ UNCHANGED <<textInput, selectedMusic, loadingState, result, error, req, ret>>

\* unmount: the cleanup of the last effect runs
PlayerUnmount ==
  /\ player.mounted
  /\ urls' = PlayerCleanup(player, urls)
  /\ player' = NoPlayer
  /\ UNCHANGED <<textInput, selectedMusic, loadingState, result, error, req, audioVars>>

NextPlayer ==
  \/ ParentCreatesUrl
  \/ PlayerRender
  \/ PlayerPropsChange
  \/ PlayerUnmount

SpecPlayer == Init /\ [][NextPlayer]_vars

(***************************************************************************)
(* Properties of the audio functions (checked under SpecAudio)             *)
(***************************************************************************)
\* The 16-bit integer floatTo16BitPCM stored for the sample of the call.
StoredInt16 == ToSigned16(ReadLE16(Returned.val, 0))

\* C1: the no-music path is bit-exact.  For every payload B, createWavUrl and
\* mixAudioWithMusic with NO_MUSIC return a 44-byte header followed by exactly
\* the bytes of B, with data length |B| and RIFF size 36 + |B|.
C1_NoMusicBitExact ==
  (call.op = "createWavUrl" \/ (call.op = "mixAudioWithMusic" /\ call.style = "NO_MUSIC"))
    => /\ Returned.ok
       /\ Len(Returned.val) = HeaderLen + Len(call.payload)
       /\ SubSeq(Returned.val, HeaderLen + 1, Len(Returned.val)) = call.payload
       /\ WavFormat(Returned.val).dataLength = Len(call.payload)
       /\ WavFormat(Returned.val).riffSize = 36 + Len(call.payload)

\* C1 witness: a NO_MUSIC mix of an odd-length, non-silent payload returned.
C1_Witness ==
  /\ call.op = "mixAudioWithMusic"
  /\ call.style = "NO_MUSIC"
  /\ call.payload = <<128, 255, 0>>
  /\ Returned.ok

\* The mix calls on a well-formed payload of n >= 1 int16 samples.
MixOfSamples ==
  \/ call.op = "mixLength"
  \/ /\ call.op = "mixAudioWithMusic"
     /\ Len(call.payload) % 2 = 0
     /\ Len(call.payload) >= 2
VoiceSamples ==
  IF call.op = "mixLength" THEN call.samples ELSE Len(call.payload) \div 2
\* frames and rate of the returned WAV (read from the blob when there is one)
OutFormat ==
  IF call.op = "mixLength" THEN Returned.val
  ELSE LET w == WavFormat(Returned.val)
       IN [frames |-> Len(w.data) \div w.blockAlign,
           sampleRate |-> w.sampleRate,
           channels |-> w.channels]

\* C2 as stated: for every style the output duration frames / rate equals the
\* voice duration n / 24000 exactly.
C2_DurationExact ==
  MixOfSamples =>
    /\ Returned.ok
    /\ OutFormat.frames * VoiceRate = VoiceSamples * OutFormat.sampleRate

\* C2 amended: NO_MUSIC keeps the duration exactly; a music style returns F
\* frames at 44100 Hz with F/44100 <= n/24000 <= (F+1)/44100: never longer
\* than the voice and at most one output sample period shorter.
C2_DurationWithinOneFrame ==
  MixOfSamples =>
    /\ Returned.ok
    /\ call.style = "NO_MUSIC" =>
         /\ OutFormat.sampleRate = VoiceRate
         /\ OutFormat.frames = VoiceSamples
    /\ call.style # "NO_MUSIC" =>
         /\ OutFormat.sampleRate = RenderRate
         /\ OutFormat.channels = 2
         /\ OutFormat.frames * VoiceRate <= VoiceSamples * RenderRate
         /\ VoiceSamples * RenderRate <= (OutFormat.frames + 1) * VoiceRate

\* C2 witness: a music mix of a voice whose length is no multiple of 80.
C2_Witness ==
  /\ MixOfSamples
  /\ call.style = "CALM"
  /\ VoiceSamples % 80 # 0
  /\ Returned.ok
  /\ OutFormat.frames >= 1
  /\ OutFormat.frames * VoiceRate < VoiceSamples * RenderRate

\* The two levels of the mix agree on the format of the output.
MixLevelsAgree ==
  (call.op = "mixAudioWithMusic" /\ MixOfSamples /\ Returned.ok)
    => OutFormat = MixOutputFormat(VoiceSamples, call.style)

\* C3 as stated: for s in [-1, 1] the stored q decodes to within one step of
\* s: |q/32768 - s| <= 1/32768.
C3_WithinOneStep ==
  (call.op = "floatTo16BitPCM" /\ call.input[1] <= call.input[2]
                               /\ call.input[1] >= -call.input[2])
    => LET k == call.input[1]
           d == call.input[2]
           diff == StoredInt16 * d - Int16Scale * k
       IN diff <= d /\ -diff <= d

\* C3 amended: for s in [-1, 1], q/32768 is within one step above a negative s
\* (0 <= q/32768 - s < 1/32768) and within two steps below a non-negative s
\* (0 <= s - q/32768 < 2/32768).
C3_WithinTwoSteps ==
  (call.op = "floatTo16BitPCM" /\ call.input[1] <= call.input[2]
                               /\ call.input[1] >= -call.input[2])
    => LET k == call.input[1]
           d == call.input[2]
           diff == StoredInt16 * d - Int16Scale * k
       IN IF k < 0 THEN 0 <= diff /\ diff < d
                   ELSE 0 <= -diff /\ -diff < 2 * d

\* C3 witness: a positive float32 sample below 1 stored more than one step low.
C3_Witness ==
  /\ call.op = "floatTo16BitPCM"
  /\ call.input[2] = DyadicDen
  /\ call.input[1] > 0
  /\ Int16Scale * call.input[1] - StoredInt16 * call.input[2] > call.input[2]

\* C4 as stated: for every music style and every duration, the envelope is 0
\* at frame 0 (both samples 0), does not decrease over the first 0.5 s and is
\* 1 at 0.5 s, does not increase over the final 1.5 s and ends within two
\* frames' worth of 0.
C4_EnvelopeBoundary ==
  (call.op = "generateBackgroundTrack" /\ call.style \in MusicStyles)
    => LET i == call.frame
           d == DurationTime(<<call.samples, VoiceRate>>)
           t == FrameTime(i, RenderRate)
           t1 == FrameTime(i + 1, RenderRate)
           e == Returned.val.env
           e1 == envelope(t1, d)
       IN /\ Returned.ok
          /\ i = 0 => (e = 0 /\ Returned.val.L0 = 0 /\ Returned.val.R0 = 0)
          /\ 2 * t1 <= EnvUnit => e <= e1
          /\ 2 * t = EnvUnit => e = EnvUnit
          /\ (2 * t >= 2 * d - 3 * EnvUnit /\ i + 1 < Returned.val.length) => e >= e1
          /\ i = Returned.val.length - 1 => 3 * e <= 4 * FrameTime(1, RenderRate)

\* The same statement for durations of at least 2 s only: there it holds.
EnvelopeBoundaryFrom2s ==
  (call.op = "generateBackgroundTrack" /\ call.samples >= 2 * VoiceRate)
    => C4_EnvelopeBoundary

\* C9 as stated: for every payload length L and every numChannels >= 1,
\* decodeAudioData raises no error and every channel has floor(floor(L/2) /
\* numChannels) samples.
C9_DecoderTolerates ==
  call.op = "decodeAudioData"
    => /\ Returned.ok
       /\ \A c \in 1..call.numChannels :
            Len(Returned.val.channels[c]) = (Len(call.payload) \div 2) \div call.numChannels

\* C9 amended: an odd L throws RangeError (the Int16Array view); an even L
\* below 2 * numChannels throws NotSupportedError (a buffer of 0 frames); every
\* other L decodes without error to numChannels channels of
\* floor((L/2) / numChannels) samples each, channel c frame i being the int16
\* at index i * numChannels + c over 32768, the trailing partial frame dropped.
C9_DecoderEvenLengths ==
  call.op = "decodeAudioData"
    => LET l == Len(call.payload)
           n == call.numChannels
           frames == (l \div 2) \div n
           int16(k) == ToSigned16(call.payload[2 * k - 1] + 256 * call.payload[2 * k])
       IN /\ l % 2 = 1 => Returned = Throw("RangeError")
          /\ (l % 2 = 0 /\ frames = 0) => Returned = Throw("NotSupportedError")
          /\ (l % 2 = 0 /\ frames >= 1) =>
               /\ Returned.ok
               /\ Returned.val.numberOfChannels = n
               /\ Returned.val.length = frames
               /\ \A c \in 1..n :
                    /\ Len(Returned.val.channels[c]) = frames
                    /\ \A i \in 1..frames :
                         Returned.val.channels[c][i] = <<int16((i - 1) * n + c), Int16Scale>>

\* C9 witness: 3 samples decoded as 2 channels, the third sample dropped.
C9_Witness ==
  /\ call.op = "decodeAudioData"
  /\ Len(call.payload) = 6
  /\ call.numChannels = 2
  /\ Returned.ok
  /\ Returned.val.length = 1
  /\ Returned.val.channels[2][1] = <<-1, Int16Scale>>

\* C10: audioBufferToWav on C in {1, 2} channels of F frames at rate R gives
\* 44 + 2CF bytes: 'RIFF', 36 + 2CF, 'WAVE', 'fmt ', 16, format 1, C channels,
\* R, byte rate 2CR, block align 2C, 16 bits, 'data', 2CF, then the samples,
\* for C = 2 interleaved ch0[i], ch1[i].
C10_WavHeaderConsistent ==
  call.op = "audioBufferToWav"
    => LET b == call.buffer
           c == b.numberOfChannels
           f == b.length
           w == WavFormat(Returned.val)
           pcm(s) == LE16(Quantize(s) + 65536)
       IN /\ Len(Returned.val) = HeaderLen + 2 * c * f
          /\ SubSeq(Returned.val, 1, 4) = <<82, 73, 70, 70>>
          /\ w.riffSize = 36 + 2 * c * f
          /\ SubSeq(Returned.val, 9, 16) = <<87, 65, 86, 69, 102, 109, 116, 32>>
          /\ ReadLE32(Returned.val, 16) = 16
          /\ w.format = 1
          /\ w.channels = c
          /\ w.sampleRate = b.sampleRate
          /\ w.blockAlign = 2 * c
          /\ w.byteRate = b.sampleRate * 2 * c
          /\ w.bitsPerSample = 16
          /\ SubSeq(Returned.val, 37, 40) = <<100, 97, 116, 97>>
          /\ w.dataLength = 2 * c * f
          /\ Len(w.data) = w.dataLength
          /\ \A i \in 1..f : \A ch \in 1..c :
               SubSeq(w.data, 2 * (c * (i - 1) + ch - 1) + 1, 2 * (c * (i - 1) + ch))
                 = pcm(b.channels[ch][i])

\* C10 witness: a 2-channel buffer of 2 frames whose channels differ.
C10_Witness ==
  /\ call.op = "audioBufferToWav"
  /\ call.buffer.numberOfChannels = 2
  /\ call.buffer.length = 2
  /\ call.buffer.channels[1] = <<<<1, 1>>, <<-1, 2>>>>
  /\ call.buffer.channels[2] = <<<<0, 1>>, <<-3, 2>>>>
  /\ Len(Returned.val) = 52

(***************************************************************************)
(* Properties of the App (checked under Spec and FairSpec)                 *)
(***************************************************************************)
\* C5: resource release.  Each object URL is revoked when a new briefing is
\* requested or the session is reset, so at most one created URL is unrevoked
\* at any time.
C5_AtMostOneLiveUrl == Cardinality(urls.live) <= 1

\* the request's mixAudioWithMusic call was made and has failed
MixFailed ==
  /\ req.pc \in {"settled", "done"}
  /\ "mixAudioWithMusic" \in req.log
  /\ ~req.outcome.ok

\* C6: no resource on failure.  When a stage of mixAudioWithMusic throws or
\* rejects, the call rejects to handleGenerate (which ends in ERROR) and
\* createObjectURL was not called for the request: the store holds the URLs it
\* held when the request began.
C6_NoUrlOnFailure ==
  MixFailed
    => /\ req.created = 0
       /\ "createObjectURL" \notin req.log
       /\ urls.created = req.urls0
       /\ req.pc = "done" => (req.trace[Len(req.trace)] = "ERROR" /\ error = req.outcome.err)

\* C6 witness: a request whose offline render rejected has ended in ERROR.
C6_Witness ==
  /\ MixFailed
  /\ req.pc = "done"
  /\ "startRendering" \in req.log
  /\ req.outcome = Throw("RenderError")
  /\ loadingState = "ERROR"

\* the TTS service answered the request without an audio payload
NoAudioAnswer == req.answered /\ (~req.tts.present \/ req.tts.data = <<>>)

\* C7: missing audio data.  When the TTS answer carries no payload (absent or
\* empty), the request goes SUMMARIZING, GENERATING_AUDIO, ERROR: it never
\* enters MIXING_AUDIO and no stage of mixAudioWithMusic is invoked.
C7_MissingAudioStops ==
  NoAudioAnswer
    => /\ req.pc = "done"
       /\ req.trace = <<"SUMMARIZING", "GENERATING_AUDIO", "ERROR">>
       /\ req.log = {}
       /\ req.created = 0
       /\ req.outcome = Throw("No audio data returned from Gemini.")

\* C7 witness: an answer whose payload is the empty string ended the request
\* in ERROR.
C7_Witness ==
  /\ req.answered
  /\ req.tts = [present |-> TRUE, data |-> <<>>]
  /\ req.pc = "done"
  /\ loadingState = "ERROR"

\* C8: render failure is a hard failure.  Whether startRendering rejects or
\* never resolves, the App leaves MIXING_AUDIO: no request stays in
\* MIXING_AUDIO forever.
C8_LeavesMixing == (loadingState = "MIXING_AUDIO") ~> (loadingState # "MIXING_AUDIO")

\* The part of C8 the code does provide: a rejected render ends in ERROR.
RenderRejectionSurfaces ==
  (MixFailed /\ req.pc = "settled") ~> (loadingState = "ERROR" /\ req.pc = "done")

(***************************************************************************)
(* Properties of the render graph (checked under SpecAudio)                *)
(***************************************************************************)
\* C11: mix routing and gain.  The voice source is connected to the destination
\* directly, the music source reaches it only through one gain node of 0.6,
\* both sources start at 0 and nothing else feeds the destination, so each
\* output sample is voice + 0.6 * music on both channels.
C11_RoutingAndGain ==
  call.op = "renderGraph"
    => LET g == Returned.val.graph
           f == Returned.val.frame
           \* num/den = voice + 3/5 * music
           Mixed(out, v, m) ==
             out[1] * (5 * v[2] * m[2]) = out[2] * (5 * v[1] * m[2] + 3 * m[1] * v[2])
       IN /\ <<"voiceSource", "destination">> \in g.connections
          /\ {c[1] : c \in {d \in g.connections : d[2] = "destination"}}
               = {"voiceSource", "musicGain"}
          /\ {c[2] : c \in {d \in g.connections : d[1] = "musicSource"}} = {"musicGain"}
          /\ {c[1] : c \in {d \in g.connections : d[2] = "musicGain"}} = {"musicSource"}
          /\ DOMAIN g.gain = {"musicGain"}
          /\ 5 * g.gain.musicGain[1] = 3 * g.gain.musicGain[2]
          /\ g.start = [voiceSource |-> 0, musicSource |-> 0]
          /\ Mixed(f.L, call.voice, call.musicL)
          /\ Mixed(f.R, call.voice, call.musicR)

\* C11 witness: voice 1/2 with music -1 (left) and 1 (right) rendered to
\* -1/10 and 11/10: the sum is not limited to [-1, 1].
C11_Witness ==
  /\ call.op = "renderGraph"
  /\ call.voice = <<1, 2>>
  /\ call.musicL = <<-1, 1>>
  /\ call.musicR = <<1, 1>>
  /\ 10 * Returned.val.frame.L[1] = -1 * Returned.val.frame.L[2]
  /\ 10 * Returned.val.frame.R[1] = 11 * Returned.val.frame.R[2]

(***************************************************************************)
(* Properties of handleDownload (checked under SpecAudio)                  *)
(***************************************************************************)
\* C12 as stated: the filename is the title lowercased with every
\* non-alphanumeric character removed, then ".wav"; the default name when no
\* alphanumeric character remains.
C12_FilenameStripped ==
  call.op = "handleDownload"
    => LET kept == SelectSeq(call.title, LAMBDA c : c \in (48..57) \cup (65..90) \cup (97..122))
           lower == [i \in 1..Len(kept) |-> IF kept[i] <= 90 /\ kept[i] >= 65
                                            THEN kept[i] + 32 ELSE kept[i]]
       IN Returned.val =
            (IF lower = <<>>
             THEN <<100, 97, 105, 108, 121, 95, 98, 114, 105, 101, 102, 105, 110, 103>>
             ELSE lower) \o <<46, 119, 97, 118>>

\* C12 amended: every character other than an ASCII letter or digit is replaced
\* by '_' (the length is kept), letters are lowercased and ".wav" follows; the
\* default name is used for the empty title only.
C12_FilenameUnderscored ==
  call.op = "handleDownload"
    => LET t == call.title
           name == Returned.val
       IN IF t = <<>>
          THEN name = <<100, 97, 105, 108, 121, 95, 98, 114, 105, 101, 102, 105, 110, 103,
                        46, 119, 97, 118>>
          ELSE /\ Len(name) = Len(t) + 4
               /\ SubSeq(name, Len(t) + 1, Len(t) + 4) = <<46, 119, 97, 118>>
               /\ \A i \in 1..Len(t) :
                    name[i] = CASE t[i] \in 65..90 -> t[i] + 32
                                [] t[i] \in (48..57) \cup (97..122) -> t[i]
                                [] OTHER -> 95

\* C12 witness: the title "A! " is offered as "a__.wav".
C12_Witness ==
  /\ call.op = "handleDownload"
  /\ call.title = <<65, 33, 32>>
  /\ Returned.val = <<97, 95, 95, 46, 119, 97, 118>>

(***************************************************************************)
(* Properties of the decoder followed by the quantizer (under SpecAudio)   *)
(***************************************************************************)
\* C19: an int16 value V decoded to V/32768 and quantized by floatTo16BitPCM
\* is stored as V when V <= 0 and as V - 1 when V > 0.
C19_Int16RoundTrip ==
  call.op = "int16RoundTrip"
    => /\ Returned.ok
       /\ Len(Returned.val) = 2
       /\ LET stored == Returned.val[1] + 256 * Returned.val[2]
              signed == IF stored >= 32768 THEN stored - 65536 ELSE stored
          IN signed = (IF call.value <= 0 THEN call.value ELSE call.value - 1)

\* C19 witness: the largest sample, 32767, comes back as 32766.
C19_Witness ==
  /\ call.op = "int16RoundTrip"
  /\ call.value = 32767
  /\ Returned.val = <<254, 127>>

(***************************************************************************)
(* Properties of the steps of mixAudioWithMusic (checked under Spec)       *)
(***************************************************************************)
\* C13: a mixAudioWithMusic call with NO_MUSIC never suspends, creates no
\* OfflineAudioContext and runs none of decodeAudioData,
\* generateBackgroundTrack, startRendering, audioBufferToWav; when it returns
\* a URL its steps were the base64 decode inside createWavUrl (which builds the
\* header) and the creation of the object URL, in that order.
C13_NoMusicFastPath ==
  (req.music = "NO_MUSIC" /\ "mixAudioWithMusic" \in req.log)
    => /\ req.pc \notin {"decoded", "rendering", "stalled"}
       /\ Range(req.steps) \cap {"OfflineAudioContext", "decodeAudioData",
                                 "generateBackgroundTrack", "startRendering",
                                 "audioBufferToWav"} = {}
       /\ req.outcome.ok
            => /\ req.steps = <<"createWavUrl", "decodeBase64", "createObjectURL">>
               /\ req.created = 1
       /\ ~req.outcome.ok
            => /\ req.steps = <<"createWavUrl", "decodeBase64">>
               /\ req.created = 0

\* C13 witness: a NO_MUSIC request whose mix returned a URL.
C13_Witness ==
  /\ req.music = "NO_MUSIC"
  /\ req.outcome.ok
  /\ req.steps = <<"createWavUrl", "decodeBase64", "createObjectURL">>
  /\ req.outcome.val \in urls.live

PipelineOrder ==
  <<"OfflineAudioContext", "decodeAudioData", "OfflineAudioContext",
    "generateBackgroundTrack", "startRendering", "audioBufferToWav", "createObjectURL">>

\* C14: with a music style the calls of a mix are made in the order decode,
\* synthesize, render, encode; nothing is encoded and no URL is created while
\* the render is outstanding; a settled mix either made all the calls and
\* returned the one URL it created, or failed having created none.
C14_StepOrder ==
  (req.music # "NO_MUSIC" /\ "mixAudioWithMusic" \in req.log)
    => /\ Len(req.steps) <= Len(PipelineOrder)
       /\ req.steps = SubSeq(PipelineOrder, 1, Len(req.steps))
       /\ req.pc \in {"decoded", "rendering", "stalled"}
            => /\ "audioBufferToWav" \notin Range(req.steps)
               /\ "createObjectURL" \notin Range(req.steps)
               /\ req.created = 0
       /\ req.pc \in {"settled", "done"}
            => \/ /\ req.outcome.ok
                  /\ req.steps = PipelineOrder
                  /\ req.created = 1
                  /\ req.outcome.val = req.urls0 + 1
               \/ /\ ~req.outcome.ok
                  /\ req.outcome.err # "pending"
                  /\ req.created = 0
                  /\ urls.created = req.urls0

\* C14 witness: a request with a music style went through all the stages.
C14_Witness ==
  /\ req.music # "NO_MUSIC"
  /\ req.pc = "done"
  /\ req.outcome.ok
  /\ req.steps = PipelineOrder

(***************************************************************************)
(* Properties of the synthesized buffer's length (checked under SpecAudio) *)
(***************************************************************************)
\* C15 as stated: for a voice of N samples the buffer of
\* generateBackgroundTrack has round(44100 * N / 24000) frames.
C15_LengthRounded ==
  call.op = "trackLength"
    => /\ Returned.ok
       /\ Returned.val.length
            = (2 * RenderRate * call.samples + VoiceRate) \div (2 * VoiceRate)

\* C15 amended: the buffer has F >= 1 frames with
\* F/44100 <= N/24000 <= (F+1)/44100: the product truncated, never rounded up.
C15_LengthTruncated ==
  call.op = "trackLength"
    => /\ Returned.ok
       /\ Returned.val.length >= 1
       /\ Returned.val.length * VoiceRate <= call.samples * RenderRate
       /\ call.samples * RenderRate <= (Returned.val.length + 1) * VoiceRate

\* C15 witness: one voice sample (1/24000 s) gives a buffer of 1 frame, where
\* rounding 1.8375 would give 2.
C15_Witness ==
  /\ call.op = "trackLength"
  /\ call.samples = 1
  /\ call.style = "CALM"
  /\ Returned.ok
  /\ Returned.val.length = 1

(***************************************************************************)
(* Properties of the App's loading state (checked under Spec)              *)
(***************************************************************************)
LoadingTransitions ==
  {<<"IDLE", "SUMMARIZING">>, <<"SUMMARIZING", "GENERATING_AUDIO">>,
   <<"GENERATING_AUDIO", "MIXING_AUDIO">>, <<"MIXING_AUDIO", "COMPLETE">>,
   <<"SUMMARIZING", "ERROR">>, <<"GENERATING_AUDIO", "ERROR">>,
   <<"MIXING_AUDIO", "ERROR">>, <<"ERROR", "IDLE">>, <<"COMPLETE", "IDLE">>}

\* a handleGenerate call that has not reached its end
InFlight == req.pc \notin {"none", "done"}

\* C16: loadingState changes only along IDLE -> SUMMARIZING ->
\* GENERATING_AUDIO -> MIXING_AUDIO -> COMPLETE, from an in-progress state to
\* ERROR, and from ERROR or COMPLETE back to IDLE; a request starts only from
\* IDLE, with input that is not blank and with no other request in flight,
\* and a request is in flight exactly in the three in-progress states.
C16_LoadingTransitions ==
  /\ [](InFlight <=> loadingState \in {"SUMMARIZING", "GENERATING_AUDIO", "MIXING_AUDIO"})
  /\ [][/\ loadingState' # loadingState
             => <<loadingState, loadingState'>> \in LoadingTransitions
        /\ (req'.pc = "summarize" /\ req # req')
             => /\ loadingState = "IDLE"
                /\ loadingState' = "SUMMARIZING"
                /\ ~InFlight
                /\ \E i \in 1..Len(textInput) : textInput[i] # Space
        /\ loadingState' = "SUMMARIZING" => req'.pc = "summarize"]_vars

\* C16 witness: after a request went through every state and New Briefing was
\* pressed, the App is back in IDLE.
C16_Witness ==
  /\ loadingState = "IDLE"
  /\ req.trace = <<"SUMMARIZING", "GENERATING_AUDIO", "MIXING_AUDIO", "COMPLETE">>
  /\ req.urls0 = 1

\* C17: in COMPLETE the result is set and holds the URL that the mix of the
\* request just finished returned (a URL created during that request); in
\* IDLE, SUMMARIZING, GENERATING_AUDIO and ERROR the result is null.
C17_ResultMatchesState ==
  /\ loadingState = "COMPLETE"
       => /\ ~result.null
          /\ req.pc = "done"
          /\ req.outcome.ok
          /\ result.audioUrl = req.outcome.val
          /\ result.audioUrl > req.urls0
          /\ result.audioUrl <= urls.created
  /\ loadingState \in {"IDLE", "SUMMARIZING", "GENERATING_AUDIO", "ERROR"}
       => result.null

\* C17 witness: the second briefing is complete and shows the second URL.
C17_Witness ==
  /\ loadingState = "COMPLETE"
  /\ req.urls0 = 1
  /\ ~result.null
  /\ result.audioUrl = 2

(***************************************************************************)
(* Properties of the Player's object URLs (checked under SpecPlayer)       *)
(***************************************************************************)
\* how often revokeObjectURL was called on url
Revocations(url) == Cardinality({i \in DOMAIN urls.revoked : urls.revoked[i] = url})

\* the mounted Player's last effect created url and has not been cleaned up
HeldByPlayer(url) == player.mounted /\ player.shouldRevoke /\ player.url = url

\* C18: only URLs that the Player created from base64Audio are ever revoked;
\* a URL passed as the audioUrl prop is used as it is and stays live; a URL
\* the Player created is revoked exactly once, by the cleanup that runs when
\* the props change or the Player unmounts (not at all while it is in use).
C18_PlayerUrlOwnership ==
  /\ \A i \in DOMAIN urls.revoked : urls.revoked[i] \in urls.byPlayer
  /\ \A url \in (1..urls.created) \ urls.byPlayer :
       /\ Revocations(url) = 0
       /\ url \in urls.live
  /\ \A url \in urls.byPlayer :
       /\ Revocations(url) = (IF HeldByPlayer(url) THEN 0 ELSE 1)
       /\ HeldByPlayer(url) <=> url \in urls.live
  /\ (call.op = "Player" /\ player.mounted /\ call.audioUrl # 0)
       => /\ player.url = call.audioUrl
          /\ ~player.shouldRevoke

\* C18 witness: the Player revoked the URL it had created from base64Audio
\* when its props changed to the parent's URL, which is live and in use.
C18_Witness ==
  /\ urls.byPlayer = {2}
  /\ urls.revoked = <<2>>
  /\ player.mounted
  /\ player.url = 1
  /\ 1 \in urls.live

====
